---- MODULE Spec2Model ----
(***************************************************************************)
(* Model of onetab_dedupe.py: read_file, deduplicate, write_file and main. *)
(* A line is a sequence of one-character strings, so that str.strip and    *)
(* str.split are computed character by character.                          *)
(***************************************************************************)
EXTENDS Integers, Sequences, FiniteSets, TLC

VARIABLES pc, dpc, data_list, i, url_set, output_list, kept, results,
          argv, old_path, new_path, fs, fs0, platform, handle_r, handle_w,
          events, stdout, exit_code, err

vars == <<pc, dpc, data_list, i, url_set, output_list, kept, results,
          argv, old_path, new_path, fs, fs0, platform, handle_r, handle_w,
          events, stdout, exit_code, err>>

dedupVars == <<data_list, i, url_set, output_list, kept, results, dpc>>

mainVars == <<pc, argv, old_path, new_path, fs, fs0, platform, handle_r,
              handle_w, events, stdout, exit_code, err>>

----------------------------------------------------------------------------
(* Bounds *)

MaxLen == 4

MaxCalls == 2

MaxFileLen == 4

----------------------------------------------------------------------------
(* Characters and the str methods used at lines 65 and 74 *)

LF == "\n"

CR == "\r"

BAR == "|"

\* the characters of the model's alphabet that str.strip() removes
Whitespace == {" ", "\t", LF, CR}

IsSpace(c) == c \in Whitespace

RECURSIVE LStrip(_)
LStrip(s) ==
  IF s = <<>> THEN s
  ELSE IF IsSpace(Head(s)) THEN LStrip(Tail(s)) ELSE s

RECURSIVE RStrip(_)
RStrip(s) ==
  IF s = <<>> THEN s
  ELSE IF IsSpace(s[Len(s)]) THEN RStrip(SubSeq(s, 1, Len(s) - 1)) ELSE s

Range(s) == {s[k] : k \in 1..Len(s)}

\* str.strip() with no argument
Strip(s) == RStrip(LStrip(s))

\* str.find(c) + 1: the position of the first c in s, 0 when there is none
Find(s, c) ==
  IF \E p \in 1..Len(s) : s[p] = c
  THEN CHOOSE p \in 1..Len(s) : s[p] = c /\ \A q \in 1..(p - 1) : s[q] # c
  ELSE 0

\* str.split(sep, 1): at most two parts, cut at the first sep
Split1(s, sep) ==
  LET p == Find(s, sep)
  IN  IF p = 0 THEN <<s>>
      ELSE <<SubSeq(s, 1, p - 1), SubSeq(s, p + 1, Len(s))>>

\* line 74 without the final .strip()
UrlKey_NoStrip(data) == Split1(Strip(data), BAR)[1]

\* line 74: url = data.strip().split("|", 1)[0].strip()
UrlKey(data) == Strip(Split1(Strip(data), BAR)[1])

\* the blank test made on the key instead of on the line
IsBlank_ByKey(data) == UrlKey(data) = <<>>

\* the blank test left out
IsBlank_Never(data) == FALSE

\* line 65: not data.strip()
IsBlank(data) == Strip(data) = <<>>

\* line 77: url in url_set
Seen(url, set) == url \in set

----------------------------------------------------------------------------
(* Inputs of deduplicate when it is called as a function *)

LinePool ==
  { <<"a", LF>>,
    <<"a", " ", BAR, " ", "b", " ", BAR, " ", "c", LF>>,
    <<" ", "a", BAR, "b">>,
    <<"a", " ", "b", LF>>,
    <<LF>>,
    <<" ", "\t", LF>>,
    <<" ", BAR, " ", "a", LF>>,
    <<BAR, "b", LF>> }

InputLists == UNION { [1..n -> LinePool] : n \in 0..MaxLen }

----------------------------------------------------------------------------
(* deduplicate, lines 44-85 *)

\* url_set kept from the previous call (a set that outlives the call)
DedupEnter_KeepSet ==
  /\ dpc = "call"
  /\ output_list' = <<>>
  /\ kept' = <<>>
  /\ i' = 1
  /\ dpc' = "loop"
  /\ UNCHANGED <<url_set, data_list, results>>
  /\ UNCHANGED mainVars

\* lines 60-61: url_set = set(); output_list = []
DedupEnter ==
  /\ dpc = "call"
  /\ url_set' = {}
  /\ output_list' = <<>>
  /\ kept' = <<>>
  /\ i' = 1
  /\ dpc' = "loop"
  /\ UNCHANGED <<data_list, results>>
  /\ UNCHANGED mainVars

\* lines 65-67: a blank line is appended, the set is not touched
DedupBlank ==
  /\ dpc = "loop"
  /\ i <= Len(data_list)
  /\ IsBlank(data_list[i])
  /\ output_list' = Append(output_list, data_list[i])
  /\ kept' = Append(kept, i)
  /\ i' = i + 1
  /\ UNCHANGED <<url_set, data_list, results, dpc>>
  /\ UNCHANGED mainVars

\* lines 74-79: the key was seen, the line is skipped
DedupSkip ==
  /\ dpc = "loop"
  /\ i <= Len(data_list)
  /\ ~IsBlank(data_list[i])
  /\ Seen(UrlKey(data_list[i]), url_set)
  /\ i' = i + 1
  /\ UNCHANGED <<url_set, output_list, kept, data_list, results, dpc>>
  /\ UNCHANGED mainVars

\* lines 80-83 with url_set.add(url) left out
DedupKeep_NoAdd ==
  /\ dpc = "loop"
  /\ i <= Len(data_list)
  /\ ~IsBlank(data_list[i])
  /\ ~Seen(UrlKey(data_list[i]), url_set)
  /\ output_list' = Append(output_list, data_list[i])
  /\ kept' = Append(kept, i)
  /\ i' = i + 1
  /\ UNCHANGED <<url_set, data_list, results, dpc>>
  /\ UNCHANGED mainVars

\* lines 80-83 with the line put in front of output_list
DedupKeep_Prepend ==
  /\ dpc = "loop"
  /\ i <= Len(data_list)
  /\ ~IsBlank(data_list[i])
  /\ ~Seen(UrlKey(data_list[i]), url_set)
  /\ url_set' = url_set \cup {UrlKey(data_list[i])}
  /\ output_list' = <<data_list[i]>> \o output_list
  /\ kept' = Append(kept, i)
  /\ i' = i + 1
  /\ UNCHANGED <<data_list, results, dpc>>
  /\ UNCHANGED mainVars

\* lines 74-77, 80-83: a new key is added to the set, the line is appended
DedupKeep ==
  /\ dpc = "loop"
  /\ i <= Len(data_list)
  /\ ~IsBlank(data_list[i])
  /\ ~Seen(UrlKey(data_list[i]), url_set)
  /\ url_set' = url_set \cup {UrlKey(data_list[i])}
  /\ output_list' = Append(output_list, data_list[i])
  /\ kept' = Append(kept, i)
  /\ i' = i + 1
  /\ UNCHANGED <<data_list, results, dpc>>
  /\ UNCHANGED mainVars

\* line 85: return output_list
DedupReturn ==
  /\ dpc = "loop"
  /\ i > Len(data_list)
  /\ dpc' = "returned"
  /\ results' = Append(results, [arg |-> data_list, ret |-> output_list])
  /\ UNCHANGED <<data_list, i, url_set, output_list, kept>>
  /\ UNCHANGED mainVars

\* deduplicate is called again on what it returned
Reapply ==
  /\ pc = "fn"
  /\ dpc = "returned"
  /\ Len(results) < MaxCalls
  /\ data_list' = output_list
  /\ dpc' = "call"
  /\ UNCHANGED <<i, url_set, output_list, kept, results>>
  /\ UNCHANGED mainVars

----------------------------------------------------------------------------
(* deduplicate called as a function on every bounded list of lines *)

Init ==
  /\ pc = "fn"
  /\ dpc = "call"
  /\ data_list \in InputLists
  /\ i = 1
  /\ url_set = {}
  /\ output_list = <<>>
  /\ kept = <<>>
  /\ results = <<>>
  /\ argv = <<>>
  /\ old_path = "none"
  /\ new_path = "none"
  /\ fs = <<>>
  /\ fs0 = <<>>
  /\ platform = "posix"
  /\ handle_r = "none"
  /\ handle_w = "none"
  /\ events = <<>>
  /\ stdout = <<>>
  /\ exit_code = -1
  /\ err = "none"

Next ==
  \/ DedupEnter
  \/ DedupBlank
  \/ DedupSkip
  \/ DedupKeep
  \/ DedupReturn
  \/ Reapply

Spec == Init /\ [][Next]_vars

----------------------------------------------------------------------------
(* Text-mode files: open(..., mode="r") and open(..., mode="w") are called *)
(* without newline=, so reading turns "\r\n" and "\r" into "\n" and        *)
(* writing turns "\n" into the platform's line separator.                  *)

Platforms == {"posix", "nt"}

\* os.linesep
LineSep(os) == IF os = "nt" THEN <<CR, LF>> ELSE <<LF>>

\* the decoder of a file opened for reading with newline=None
RECURSIVE TranslateRead(_)
TranslateRead(s) ==
  IF s = <<>> THEN <<>>
  ELSE IF Head(s) = CR
       THEN IF Len(s) >= 2 /\ s[2] = LF
            THEN <<LF>> \o TranslateRead(SubSeq(s, 3, Len(s)))
            ELSE <<LF>> \o TranslateRead(Tail(s))
       ELSE <<Head(s)>> \o TranslateRead(Tail(s))

\* iterating the file: each line ends after its "\n", the last may have none
RECURSIVE SplitLines(_)
SplitLines(t) ==
  IF t = <<>> THEN <<>>
  ELSE LET p == Find(t, LF)
       IN  IF p = 0 THEN <<t>>
           ELSE <<SubSeq(t, 1, p)>> \o SplitLines(SubSeq(t, p + 1, Len(t)))

\* lines 39-42: the list read_file returns for a file holding bytes
ReadFileLines(bytes) == SplitLines(TranslateRead(bytes))

\* the encoder of a file opened for writing with newline=None
RECURSIVE TranslateWrite(_, _)
TranslateWrite(s, os) ==
  IF s = <<>> THEN <<>>
  ELSE IF Head(s) = LF
       THEN LineSep(os) \o TranslateWrite(Tail(s), os)
       ELSE <<Head(s)>> \o TranslateWrite(Tail(s), os)

RECURSIVE Flatten(_)
Flatten(lines) ==
  IF lines = <<>> THEN <<>> ELSE Head(lines) \o Flatten(Tail(lines))

\* line 100: what file.writelines(data_list) leaves in the file
WrittenBytes(lines, os) == TranslateWrite(Flatten(lines), os)

----------------------------------------------------------------------------
(* The files and command lines main is run on *)

Paths == {"p", "q"}

FileChars == {"a", BAR, LF, CR}

Contents == UNION { [1..n -> FileChars] : n \in 0..MaxFileLen }

\* st: "ok", "missing", "noperm" (no access), "readonly", "baddecode"
\* (bytes that are not valid UTF-8)
SourceFiles ==
  { [st |-> "ok", data |-> c] : c \in Contents }
    \cup { [st |-> "missing", data |-> <<>>],
           [st |-> "noperm", data |-> <<"a", LF>>],
           [st |-> "readonly", data |-> <<"a", LF, "a", LF>>],
           [st |-> "baddecode", data |-> <<>>] }

DestFiles ==
  { [st |-> "missing", data |-> <<>>],
    [st |-> "ok", data |-> <<"a", BAR, LF>>],
    [st |-> "noperm", data |-> <<"a", BAR, LF>>] }

ArgvSet ==
  { <<>>, <<"-h">>, <<"p">>, <<"p", "q">>, <<"p", "q", "q">> }

CanOpenRead(f) == f.st \in {"ok", "readonly", "baddecode"}

CanOpenWrite(f) == f.st \in {"ok", "missing", "baddecode"}

----------------------------------------------------------------------------
(* main, lines 103-138, with read_file and write_file *)

\* lines 108-124: parse_args() rejects the command line and exits with 2
ParseUsageError ==
  /\ pc = "start"
  /\ "-h" \notin Range(argv)
  /\ Len(argv) = 0 \/ Len(argv) > 2
  /\ err' = "usage"
  /\ exit_code' = 2
  /\ pc' = "exited"
  /\ UNCHANGED <<argv, old_path, new_path, fs, fs0, platform, handle_r,
                 handle_w, events, stdout>>
  /\ UNCHANGED dedupVars

\* lines 108-124: parse_args() prints the help text and exits with 0
ParseHelp ==
  /\ pc = "start"
  /\ "-h" \in Range(argv)
  /\ stdout' = Append(stdout, "help")
  /\ exit_code' = 0
  /\ pc' = "exited"
  /\ UNCHANGED <<argv, old_path, new_path, fs, fs0, platform, handle_r,
                 handle_w, events, err>>
  /\ UNCHANGED dedupVars

\* lines 124-127: args.old_path and args.new_path (None when not given)
ParseOk ==
  /\ pc = "start"
  /\ "-h" \notin Range(argv)
  /\ Len(argv) \in {1, 2}
  /\ old_path' = argv[1]
  /\ new_path' = IF Len(argv) = 2 THEN argv[2] ELSE "None"
  /\ pc' = "paths"
  /\ UNCHANGED <<argv, fs, fs0, platform, handle_r, handle_w, events,
                 stdout, exit_code, err>>
  /\ UNCHANGED dedupVars

\* lines 128-131: no new_path, the old file is the destination
PathDefault ==
  /\ pc = "paths"
  /\ new_path = "None"
  /\ new_path' = old_path
  /\ stdout' = Append(stdout, "inplace")
  /\ pc' = "read"
  /\ UNCHANGED <<argv, old_path, fs, fs0, platform, handle_r, handle_w,
                 events, exit_code, err>>
  /\ UNCHANGED dedupVars

\* lines 132-133: new_path = args.new_path
PathGiven ==
  /\ pc = "paths"
  /\ new_path # "None"
  /\ pc' = "read"
  /\ UNCHANGED <<argv, old_path, new_path, fs, fs0, platform, handle_r,
                 handle_w, events, stdout, exit_code, err>>
  /\ UNCHANGED dedupVars

\* line 39 opening the destination for writing along with the source
ReadOpen_TruncFirst ==
  /\ pc = "read"
  /\ CanOpenRead(fs[old_path])
  /\ handle_r' = old_path
  /\ fs' = IF CanOpenWrite(fs[new_path])
           THEN [fs EXCEPT ![new_path] = [st |-> "ok", data |-> <<>>]]
           ELSE fs
  /\ events' = Append(events, [op |-> "open_r", path |-> old_path])
  /\ pc' = "reading"
  /\ UNCHANGED <<argv, old_path, new_path, fs0, platform, handle_w,
                 stdout, exit_code, err>>
  /\ UNCHANGED dedupVars

\* line 39: open(file_path, "r") succeeds
ReadOpen ==
  /\ pc = "read"
  /\ CanOpenRead(fs[old_path])
  /\ handle_r' = old_path
  /\ events' = Append(events, [op |-> "open_r", path |-> old_path])
  /\ pc' = "reading"
  /\ UNCHANGED <<argv, old_path, new_path, fs, fs0, platform, handle_w,
                 stdout, exit_code, err>>
  /\ UNCHANGED dedupVars

\* line 39: open(file_path, "r") raises, nothing catches it, exit status 1
ReadOpenFail ==
  /\ pc = "read"
  /\ ~CanOpenRead(fs[old_path])
  /\ err' = "read"
  /\ exit_code' = 1
  /\ pc' = "exited"
  /\ UNCHANGED <<argv, old_path, new_path, fs, fs0, platform, handle_r,
                 handle_w, events, stdout>>
  /\ UNCHANGED dedupVars

\* lines 40-42 and 136-137: every line is read, the with block closes the
\* file, read_file returns and main calls deduplicate on the list
ReadLines ==
  /\ pc = "reading"
  /\ fs[old_path].st # "baddecode"
  /\ data_list' = ReadFileLines(fs[old_path].data)
  /\ handle_r' = "none"
  /\ events' = Append(events, [op |-> "close_r", path |-> old_path])
  /\ pc' = "dedup"
  /\ dpc' = "call"
  /\ UNCHANGED <<argv, old_path, new_path, fs, fs0, platform, handle_w,
                 stdout, exit_code, err>>
  /\ UNCHANGED <<i, url_set, output_list, kept, results>>

\* line 40: the bytes are not valid UTF-8; the with block closes the file
\* and the error leaves main
ReadDecodeFail ==
  /\ pc = "reading"
  /\ fs[old_path].st = "baddecode"
  /\ handle_r' = "none"
  /\ events' = Append(events, [op |-> "close_r", path |-> old_path])
  /\ err' = "read"
  /\ exit_code' = 1
  /\ pc' = "exited"
  /\ UNCHANGED <<argv, old_path, new_path, fs, fs0, platform, handle_w,
                 stdout>>
  /\ UNCHANGED dedupVars

\* lines 138, 99: open(file_path, "w") truncates or creates the destination
WriteOpen ==
  /\ pc = "dedup"
  /\ dpc = "returned"
  /\ CanOpenWrite(fs[new_path])
  /\ fs' = [fs EXCEPT ![new_path] = [st |-> "ok", data |-> <<>>]]
  /\ handle_w' = new_path
  /\ events' = Append(events, [op |-> "open_w", path |-> new_path])
  /\ pc' = "writing"
  /\ UNCHANGED <<argv, old_path, new_path, fs0, platform, handle_r,
                 stdout, exit_code, err>>
  /\ UNCHANGED dedupVars

\* line 99 with the error caught and dropped
WriteOpenFail_Swallow ==
  /\ pc = "dedup"
  /\ dpc = "returned"
  /\ ~CanOpenWrite(fs[new_path])
  /\ exit_code' = 0
  /\ pc' = "exited"
  /\ UNCHANGED <<argv, old_path, new_path, fs, fs0, platform, handle_r,
                 handle_w, events, stdout, err>>
  /\ UNCHANGED dedupVars

\* line 99: open(file_path, "w") raises, nothing catches it, exit status 1
WriteOpenFail ==
  /\ pc = "dedup"
  /\ dpc = "returned"
  /\ ~CanOpenWrite(fs[new_path])
  /\ err' = "write"
  /\ exit_code' = 1
  /\ pc' = "exited"
  /\ UNCHANGED <<argv, old_path, new_path, fs, fs0, platform, handle_r,
                 handle_w, events, stdout>>
  /\ UNCHANGED dedupVars

\* line 100: writelines writes every line, the with block closes the file
WriteLines ==
  /\ pc = "writing"
  /\ fs' = [fs EXCEPT ![new_path].data = WrittenBytes(output_list, platform)]
  /\ handle_w' = "none"
  /\ events' = Append(events, [op |-> "close_w", path |-> new_path])
  /\ pc' = "written"
  /\ UNCHANGED <<argv, old_path, new_path, fs0, platform, handle_r,
                 stdout, exit_code, err>>
  /\ UNCHANGED dedupVars

\* line 100: the write fails part of the way (disk full); the with block
\* closes the file and the error leaves main
WriteLinesFail ==
  /\ pc = "writing"
  /\ \E n \in 0..Len(WrittenBytes(output_list, platform)) :
       fs' = [fs EXCEPT ![new_path].data =
                SubSeq(WrittenBytes(output_list, platform), 1, n)]
  /\ handle_w' = "none"
  /\ events' = Append(events, [op |-> "close_w", path |-> new_path])
  /\ err' = "write"
  /\ exit_code' = 1
  /\ pc' = "exited"
  /\ UNCHANGED <<argv, old_path, new_path, fs0, platform, handle_r, stdout>>
  /\ UNCHANGED dedupVars

\* line 101: the completion notice
PrintDone ==
  /\ pc = "written"
  /\ stdout' = Append(stdout, "done")
  /\ pc' = "return"
  /\ UNCHANGED <<argv, old_path, new_path, fs, fs0, platform, handle_r,
                 handle_w, events, exit_code, err>>
  /\ UNCHANGED dedupVars

\* lines 138, 144: main returns, the interpreter exits with 0
MainReturn ==
  /\ pc = "return"
  /\ exit_code' = 0
  /\ pc' = "exited"
  /\ UNCHANGED <<argv, old_path, new_path, fs, fs0, platform, handle_r,
                 handle_w, events, stdout, err>>
  /\ UNCHANGED dedupVars

InitMain ==
  /\ pc = "start"
  /\ dpc = "idle"
  /\ data_list = <<>>
  /\ i = 1
  /\ url_set = {}
  /\ output_list = <<>>
  /\ kept = <<>>
  /\ results = <<>>
  /\ argv \in ArgvSet
  /\ old_path = "None"
  /\ new_path = "None"
  /\ \E src \in SourceFiles : \E dst \in DestFiles :
       fs = [x \in Paths |-> IF x = "p" THEN src ELSE dst]
  /\ fs0 = fs
  /\ platform \in Platforms
  /\ handle_r = "none"
  /\ handle_w = "none"
  /\ events = <<>>
  /\ stdout = <<>>
  /\ exit_code = -1
  /\ err = "none"

NextMain ==
  \/ ParseUsageError
  \/ ParseHelp
  \/ ParseOk
  \/ PathDefault
  \/ PathGiven
  \/ ReadOpen
  \/ ReadOpenFail
  \/ ReadLines
  \/ ReadDecodeFail
  \/ DedupEnter
  \/ DedupBlank
  \/ DedupSkip
  \/ DedupKeep
  \/ DedupReturn
  \/ WriteOpen
  \/ WriteOpenFail
  \/ WriteLines
  \/ WriteLinesFail
  \/ PrintDone
  \/ MainReturn

SpecMain == InitMain /\ [][NextMain]_vars

----------------------------------------------------------------------------
(* Vocabulary of the properties, stated without the operators of the code *)

\* the lines the running call has already been through
Processed == IF dpc = "call" THEN {} ELSE 1..(i - 1)

\* a line is blank when every character of it is whitespace
AllSpace(line) == \A p \in 1..Len(line) : IsSpace(line[p])

NonBlankProcessed == {j \in Processed : ~AllSpace(data_list[j])}

\* a is b with some elements left out, order kept
RECURSIVE IsSubseq(_, _)
IsSubseq(a, b) ==
  IF a = <<>> THEN TRUE
  ELSE IF b = <<>> THEN FALSE
  ELSE IF Head(a) = Head(b) THEN IsSubseq(Tail(a), Tail(b))
  ELSE IsSubseq(a, Tail(b))

\* k is the key of line: line is whitespace, then k, then whitespace, then
\* either the end of the line or its first "|"
IsKeyOf(k, line) ==
  \E s \in 1..(Len(line) + 1) : \E e \in (s - 1)..Len(line) :
    /\ k = SubSeq(line, s, e)
    /\ \A p \in 1..(s - 1) : IsSpace(line[p])
    /\ \A p \in s..e : line[p] # BAR
    /\ k # <<>> => (~IsSpace(line[s]) /\ ~IsSpace(line[e]))
    /\ \E t \in (e + 1)..(Len(line) + 1) :
         /\ \A p \in (e + 1)..(t - 1) : IsSpace(line[p])
         /\ t = Len(line) + 1 \/ line[t] = BAR

SpecKey(line) ==
  CHOOSE k \in {SubSeq(line, s, e) : s \in 1..(Len(line) + 1), e \in 0..Len(line)} :
    IsKeyOf(k, line)

\* the first character of line that is not whitespace is "|"
EmptyKeyLine(line) ==
  \E p \in 1..Len(line) :
    /\ line[p] = BAR
    /\ \A q \in 1..(p - 1) : IsSpace(line[q])

\* kept names the positions of the lines of output_list
KeptIsOutput ==
  /\ Len(kept) = Len(output_list)
  /\ \A m \in 1..Len(kept) :
       kept[m] \in Processed /\ output_list[m] = data_list[kept[m]]

----------------------------------------------------------------------------
(* Properties of deduplicate *)

\* C1: of the non-blank lines that share a URL key, the line at the first
\* position is in the output and the lines at the later positions are not,
\* so the output holds one line for each key.
FirstOccurrence ==
  dpc # "call" =>
    /\ KeptIsOutput
    /\ \A j \in NonBlankProcessed :
         (j \in Range(kept)) <=>
           (\A k \in NonBlankProcessed :
              k < j => UrlKey(data_list[k]) # UrlKey(data_list[j]))
    /\ \A m, n \in 1..Len(kept) :
         (m # n /\ ~AllSpace(output_list[m]) /\ ~AllSpace(output_list[n]))
           => UrlKey(output_list[m]) # UrlKey(output_list[n])

FirstOccurrenceWitness ==
  /\ pc = "fn"
  /\ dpc = "returned"
  /\ \E j1, j2, j3 \in NonBlankProcessed :
       /\ j1 < j2 /\ j2 < j3
       /\ UrlKey(data_list[j1]) = UrlKey(data_list[j2])
       /\ UrlKey(data_list[j2]) = UrlKey(data_list[j3])
       /\ data_list[j1] # data_list[j2]
       /\ j1 \in Range(kept)
       /\ j2 \notin Range(kept)
       /\ j3 \notin Range(kept)

\* C2: after every iteration the output is a subsequence of the input read
\* so far: no longer than it, made of unmodified input lines, in input order.
OrderPreserved ==
  dpc # "call" =>
    /\ Len(output_list) <= Len(data_list)
    /\ IsSubseq(output_list, SubSeq(data_list, 1, i - 1))
    /\ KeptIsOutput
    /\ \A m, n \in 1..Len(kept) : m < n => kept[m] < kept[n]

OrderPreservedWitness ==
  /\ pc = "fn"
  /\ dpc = "loop"
  /\ i <= Len(data_list)
  /\ Len(output_list) >= 2
  /\ Len(output_list) < i - 1
  /\ output_list[1] # output_list[2]

\* C3: every blank line is in the output, between the same surviving
\* neighbours as in the input, and the seen-key set holds the keys of the
\* non-blank lines only.
BlankPreserved ==
  dpc # "call" =>
    /\ \A j \in Processed :
         AllSpace(data_list[j]) =>
           \E m \in 1..Len(kept) :
             /\ kept[m] = j
             /\ m <= Len(output_list)
             /\ output_list[m] = data_list[j]
             /\ \A n \in 1..Len(kept) : (n < m <=> kept[n] < j)
    /\ url_set = {UrlKey(data_list[j]) : j \in NonBlankProcessed}

BlankPreservedWitness ==
  /\ pc = "fn"
  /\ dpc = "returned"
  /\ \E j1, j2, j3, j4 \in Processed :
       /\ j1 < j2 /\ j2 < j3 /\ j3 < j4
       /\ ~AllSpace(data_list[j1])
       /\ AllSpace(data_list[j2])
       /\ data_list[j3] = data_list[j1]
       /\ AllSpace(data_list[j4])
       /\ output_list = <<data_list[j1], data_list[j2], data_list[j4]>>

\* C4: deduplicate applied to what deduplicate returned returns it unchanged.
Idempotence ==
  \A k \in 2..Len(results) :
    results[k].arg = results[k - 1].ret => results[k].ret = results[k].arg

IdempotenceWitness ==
  /\ pc = "fn"
  /\ Len(results) >= 2
  /\ results[2].arg = results[1].ret
  /\ results[1].ret # results[1].arg
  /\ Len(results[1].ret) >= 2
  /\ \E m \in 1..Len(results[1].ret) : AllSpace(results[1].ret[m])

\* C5: the key the code files a non-blank line under is the trimmed text
\* before the line's first "|" (the whole trimmed line when it has none), and
\* a non-blank line is dropped exactly when an earlier non-blank line has
\* that same key.
KeyExtraction ==
  dpc # "call" =>
    /\ \A j \in NonBlankProcessed : IsKeyOf(SpecKey(data_list[j]), data_list[j])
    /\ url_set = {SpecKey(data_list[j]) : j \in NonBlankProcessed}
    /\ \A j \in NonBlankProcessed :
         (j \notin Range(kept)) <=>
           (\E k \in NonBlankProcessed :
              k < j /\ SpecKey(data_list[k]) = SpecKey(data_list[j]))

KeyExtractionWitness ==
  /\ pc = "fn"
  /\ dpc = "returned"
  /\ \E j1, j2 \in Processed :
       /\ j1 < j2
       /\ data_list[j1] = <<"a", LF>>
       /\ data_list[j2] = <<"a", " ", BAR, " ", "b", " ", BAR, " ", "c", LF>>
       /\ j2 \notin Range(kept)
  /\ <<"a", " ", "b">> \in url_set

\* C10: a line whose first non-whitespace character is "|" is filed under the
\* empty key like any other line: the first such line is kept, every later
\* one is dropped.
EmptyKeyOrdinary ==
  dpc # "call" =>
    \A j \in Processed :
      EmptyKeyLine(data_list[j]) =>
        /\ <<>> \in url_set
        /\ (j \in Range(kept)) <=>
             (\A k \in 1..(j - 1) : ~EmptyKeyLine(data_list[k]))

EmptyKeyOrdinaryWitness ==
  /\ pc = "fn"
  /\ dpc = "returned"
  /\ \E j1, j2, j3 \in Processed :
       /\ j1 < j2 /\ j2 < j3
       /\ EmptyKeyLine(data_list[j1])
       /\ EmptyKeyLine(data_list[j2])
       /\ EmptyKeyLine(data_list[j3])
       /\ data_list[j1] # data_list[j2]
       /\ j1 \in Range(kept)
       /\ j2 \notin Range(kept)
       /\ j3 \notin Range(kept)

----------------------------------------------------------------------------
(* Properties of main *)

\* the lines of a file with the terminator each one carries: a line ends
\* after "\n", after "\r\n", or after a "\r" that no "\n" follows
RECURSIVE SourceLines(_)
SourceLines(bytes) ==
  IF bytes = <<>> THEN <<>>
  ELSE LET ends == {p \in 1..Len(bytes) :
                      \/ bytes[p] = LF
                      \/ bytes[p] = CR /\ (p = Len(bytes) \/ bytes[p + 1] # LF)}
       IN  IF ends = {} THEN <<bytes>>
           ELSE LET p == CHOOSE q \in ends : \A r \in ends : q <= r
                IN  <<SubSeq(bytes, 1, p)>>
                      \o SourceLines(SubSeq(bytes, p + 1, Len(bytes)))

\* the source lines the run kept, as the source file holds them
KeptSourceBytes ==
  Flatten([m \in 1..Len(kept) |-> SourceLines(fs0[old_path].data)[kept[m]]])

Succeeded == pc = "exited" /\ exit_code = 0 /\ "-h" \notin Range(argv)

\* C6: a run without new_path writes to the source path, reads and closes
\* the source before it opens it for writing, leaves in it the deduplicated
\* lines of its original content, and prints the in-place notice before the
\* completion notice; a run with new_path writes to new_path.
InPlaceOverwrite ==
  Succeeded =>
    /\ Len(SourceLines(fs0[old_path].data)) = Len(data_list)
    /\ events = << [op |-> "open_r", path |-> old_path],
                   [op |-> "close_r", path |-> old_path],
                   [op |-> "open_w", path |-> new_path],
                   [op |-> "close_w", path |-> new_path] >>
    /\ Len(argv) = 1 =>
         /\ new_path = old_path
         /\ stdout = <<"inplace", "done">>
         /\ fs[old_path].data = KeptSourceBytes
    /\ Len(argv) = 2 =>
         /\ new_path = argv[2]
         /\ stdout = <<"done">>
         /\ fs[new_path].data = KeptSourceBytes

\* the part of C6 that is about the order of the steps, with the content of
\* the destination stated on the lines read_file returned
InPlaceSequence ==
  Succeeded =>
    /\ events = << [op |-> "open_r", path |-> old_path],
                   [op |-> "close_r", path |-> old_path],
                   [op |-> "open_w", path |-> new_path],
                   [op |-> "close_w", path |-> new_path] >>
    /\ new_path = (IF Len(argv) = 1 THEN old_path ELSE argv[2])
    /\ stdout = (IF Len(argv) = 1 THEN <<"inplace", "done">> ELSE <<"done">>)
    /\ data_list = ReadFileLines(fs0[old_path].data)
    /\ fs[new_path].data = WrittenBytes(output_list, platform)

\* no handle is open for writing while the source is open for reading
HandlesDisjoint == handle_r = "none" \/ handle_w = "none"

\* C7: when read_file fails, no file has been opened for writing, truncated
\* or created: the file system is as it was when the run started.
ReadFailureUntouched ==
  err = "read" =>
    /\ fs = fs0
    /\ handle_w = "none"
    /\ \A e \in Range(events) : e.op \notin {"open_w", "close_w"}

ReadFailureUntouchedWitness ==
  /\ pc = "exited"
  /\ err = "read"
  /\ exit_code = 1
  /\ new_path \notin {old_path, "None"}
  /\ fs[old_path].st = "baddecode"
  /\ fs[new_path].st = "ok"
  /\ fs[new_path].data # <<>>

\* C8: after a successful run the destination holds each kept line with the
\* text and the line terminator it has in the source, and an empty source
\* gives an empty destination.
VerbatimLines ==
  Succeeded =>
    /\ fs[new_path].data = KeptSourceBytes
    /\ fs0[old_path].data = <<>> => fs[new_path].data = <<>>

\* C9 as stated: a non-zero exit status comes from a file error of read_file
\* or write_file only, and a zero exit status follows the completion notice.
ExitOnlyOnFileError ==
  pc = "exited" =>
    /\ exit_code # 0 => err \in {"read", "write"}
    /\ exit_code = 0 => (stdout # <<>> /\ stdout[Len(stdout)] = "done")

\* C9 amended: a non-zero exit status comes from a file error of read_file or
\* write_file, or is the status 2 of a command line argparse rejected; a zero
\* exit status follows the completion notice, or follows a help request that
\* touched no file.
ExitBehaviour ==
  pc = "exited" =>
    /\ exit_code # 0 =>
         \/ err \in {"read", "write"}
         \/ err = "usage" /\ exit_code = 2 /\ fs = fs0 /\ events = <<>>
    /\ exit_code = 0 =>
         \/ stdout # <<>> /\ stdout[Len(stdout)] = "done" /\ err = "none"
         \/ "-h" \in Range(argv) /\ fs = fs0 /\ events = <<>>

ExitBehaviourWitness ==
  /\ pc = "exited"
  /\ err = "usage"
  /\ exit_code = 2
  /\ Len(argv) > 2

====
